---- MODULE Spec2Model ----
(***************************************************************************)
(* Model of update_tasks.py: the task plan file is read into a text        *)
(* buffer, one regular-expression substitution is applied to the buffer    *)
(* for each of TASK-001 .. TASK-030, the buffer is written back and a      *)
(* count message is printed.                                               *)
(*                                                                         *)
(* The document text is modelled as a sequence of lines.  A line is one of *)
(*   - task_id: "TASK-NNN"        (opens a record)                         *)
(*   status: "<word>"                                                      *)
(*   completed_date: "2025-11-05"                                          *)
(*   priority: "high"             (any other field)                        *)
(* The literals of the pattern each lie within one line, and `.*?` with    *)
(* re.DOTALL crosses any number of lines, so a match of the pattern is a   *)
(* run of lines from a task_id line to the nearest later status-pending    *)
(* line.                                                                   *)
(*                                                                         *)
(* The file on disk is its lines together with the line terminator it      *)
(* uses.  read_text and write_text open the file in text mode: reading     *)
(* turns every terminator into "\n" (universal newlines), writing turns    *)
(* every "\n" into os.linesep.  The buffer is text whose lines all end in  *)
(* "\n", and so is the line the replacement inserts.                       *)
(***************************************************************************)
EXTENDS Naturals, Sequences, FiniteSets

VARIABLES pc, file, readable, linesep, content, idx, printed, reads, writes, run, file0

vars == <<pc, file, readable, linesep, content, idx, printed, reads, writes, run, file0>>

\* ---------------------------------------------------------------- bounds
MaxRecs == 2
MaxRuns == 2

\* ---------------------------------------------------------------- lines
RangeEnd == 30

\* completed_tasks = list(range(1, 31))
completed_tasks == [i \in 1..RangeEnd |-> i]

\* f"TASK-{task_num:03d}": the decimal digits, zero-padded to width 3
TaskId(task_num) ==
    <<(task_num \div 100) % 10, (task_num \div 10) % 10, task_num % 10>>

TaskIdLine(task_id) == [k |-> "task_id", id |-> task_id, s |-> ""]
StatusLine(s) == [k |-> "status", id |-> <<>>, s |-> s]
CompletedDateLine == [k |-> "completed_date", id |-> <<>>, s |-> "2025-11-05"]
OtherLine == [k |-> "priority", id |-> <<>>, s |-> "high"]

\* ---------------------------------------------------------------- re.sub
\* the head of the pattern:  - task_id: "{task_id}"
MatchesHead(line, task_id) == line = TaskIdLine(task_id)

MatchesTail_AnyStatus(line) == line.k = "status"

MatchesTail_Blocked(line) == line \in {StatusLine("pending"), StatusLine("blocked")}

\* the tail of the pattern:  status: "pending"
MatchesTail(line) == line = StatusLine("pending")

Replacement_NoDate(group1) == group1 \o <<StatusLine("completed")>>

\* r'\1status: "completed"\n      completed_date: "2025-11-05"'
Replacement(group1) == group1 \o <<StatusLine("completed"), CompletedDateLine>>

\* positions i >= pos where the pattern matches: a head line with a tail
\* line somewhere after it
MatchStarts(task_id, text, pos) ==
    {i \in pos..Len(text) :
        /\ MatchesHead(text[i], task_id)
        /\ \E j \in (i+1)..Len(text) : MatchesTail(text[j])}

Min(S) == CHOOSE x \in S : \A y \in S : x <= y

\* .*? is non-greedy: the match ends at the nearest tail line
MatchEnd(text, i) == Min({j \in (i+1)..Len(text) : MatchesTail(text[j])})

\* re.sub scanning from pos: leftmost match, replace, continue after the
\* match; count = 0 replaces every non-overlapping match, count = c > 0
\* the first c
RECURSIVE Sub(_, _, _, _)
Sub(task_id, text, pos, count) ==
    IF MatchStarts(task_id, text, pos) = {}
    THEN SubSeq(text, pos, Len(text))
    ELSE LET i == Min(MatchStarts(task_id, text, pos))
             j == MatchEnd(text, i)
         IN  SubSeq(text, pos, i - 1)
             \o Replacement(SubSeq(text, i, j - 1))
             \o (IF count = 1
                 THEN SubSeq(text, j + 1, Len(text))
                 ELSE Sub(task_id, text, j + 1,
                          IF count = 0 THEN 0 ELSE count - 1))

ReSub_First(task_id, text) == Sub(task_id, text, 1, 1)

\* re.sub(pattern, replacement, content, flags=re.DOTALL)   (count omitted)
ReSub(task_id, text) == Sub(task_id, text, 1, 0)

\* ---------------------------------------------------------------- inputs
TaskNums == {1, 30, 31}

\* a record of the task plan: its task_id line, its status line, then the
\* fields after the status; a completed record carries its completed_date
RecordKinds ==
    UNION {
      { <<TaskIdLine(TaskId(n)), StatusLine("pending")>>,
        <<TaskIdLine(TaskId(n)), StatusLine("pending"), OtherLine>>,
        <<TaskIdLine(TaskId(n)), StatusLine("completed"), CompletedDateLine>>,
        <<TaskIdLine(TaskId(n)), StatusLine("blocked")>> } : n \in TaskNums }

RECURSIVE Docs(_)
Docs(n) ==
    IF n = 0 THEN {<<>>}
    ELSE LET shorter == Docs(n - 1)
         IN  shorter \cup {d \o r : d \in shorter, r \in RecordKinds}

\* line terminators a text file can use; os.linesep is one of them
Eols == {"\n", "\r\n"}

Files == {[lines |-> d, eol |-> e] : d \in Docs(MaxRecs), e \in Eols}

\* text-mode decoding of read_text: every line terminator becomes "\n"
Decode(f) == f.lines

\* text-mode encoding of write_text: every "\n" becomes os.linesep
Encode(text) == [lines |-> text, eol |-> linesep]

\* ---------------------------------------------------------------- program
\* pc        where the process is: "read" (line 7), "loop" (lines 13-18),
\*           "write" (line 21), "report" (line 22), "done", or terminated by
\*           the unhandled OSError of line 7 / line 21
\* file      the text of task-plan.yaml on disk
\* readable  whether the file exists and can be read and decoded
\* linesep   os.linesep of the platform the script runs on
\* content   the in-memory buffer
\* idx       1-based position of the for loop in completed_tasks, 0 before
\* printed   what the process has written to standard output
\* reads, writes   number of read_text / write_text calls that succeeded
\* run       number of the current invocation of the script
\* file0     the text the file held when the current invocation started
TypeOK ==
    /\ pc \in {"read", "loop", "write", "report", "done",
               "fatal_read", "fatal_write"}
    /\ idx \in 0..(Len(completed_tasks) + 1)
    /\ run \in 1..MaxRuns
    /\ reads \in 0..1 /\ writes \in 0..1

Init ==
    /\ pc = "read"
    /\ file \in Files
    /\ readable \in BOOLEAN
    /\ linesep \in Eols
    /\ content = <<>>
    /\ idx = 0
    /\ printed = <<>>
    /\ reads = 0
    /\ writes = 0
    /\ run = 1
    /\ file0 = file

\* content = task_plan_path.read_text()
ReadOk ==
    /\ pc = "read"
    /\ readable
    /\ content' = Decode(file)
    /\ reads' = reads + 1
    /\ idx' = 1
    /\ pc' = "loop"
    /\ UNCHANGED <<file, readable, linesep, printed, writes, run, file0>>

ReadError_Swallowed ==
    /\ pc = "read"
    /\ ~readable
    /\ content' = <<>>
    /\ idx' = 1
    /\ pc' = "loop"
    /\ UNCHANGED <<file, readable, linesep, printed, reads, writes, run, file0>>

\* read_text raises FileNotFoundError / PermissionError; nothing catches it
ReadError ==
    /\ pc = "read"
    /\ ~readable
    /\ pc' = "fatal_read"
    /\ UNCHANGED <<file, readable, linesep, content, idx, printed, reads, writes, run, file0>>

Iterate_WriteThrough ==
    /\ pc = "loop"
    /\ idx \in 1..Len(completed_tasks)
    /\ content' = ReSub(TaskId(completed_tasks[idx]), content)
    /\ file' = Encode(content')
    /\ idx' = idx + 1
    /\ pc' = IF idx = Len(completed_tasks) THEN "write" ELSE "loop"
    /\ UNCHANGED <<readable, linesep, printed, reads, writes, run, file0>>

\* one pass of the body of: for task_num in completed_tasks
Iterate ==
    /\ pc = "loop"
    /\ idx \in 1..Len(completed_tasks)
    /\ content' = ReSub(TaskId(completed_tasks[idx]), content)
    /\ idx' = idx + 1
    /\ pc' = IF idx = Len(completed_tasks) THEN "write" ELSE "loop"
    /\ UNCHANGED <<file, readable, linesep, printed, reads, writes, run, file0>>

\* task_plan_path.write_text(content)
WriteOk ==
    /\ pc = "write"
    /\ file' = Encode(content)
    /\ writes' = writes + 1
    /\ pc' = "report"
    /\ UNCHANGED <<readable, linesep, content, idx, printed, reads, run, file0>>

\* write_text raises PermissionError when the file cannot be opened for
\* writing; the file keeps its text and nothing catches the error
WriteError ==
    /\ pc = "write"
    /\ pc' = "fatal_write"
    /\ UNCHANGED <<file, readable, linesep, content, idx, printed, reads, writes, run, file0>>

NumDates(text) ==
    Cardinality({i \in 1..Len(text) : text[i] = CompletedDateLine})

Message_Changed == NumDates(content) - NumDates(file0.lines)

\* the number in f"Updated {len(completed_tasks)} tasks to completed status"
Message == Len(completed_tasks)

Report ==
    /\ pc = "report"
    /\ printed' = Append(printed, Message)
    /\ pc' = "done"
    /\ UNCHANGED <<file, readable, linesep, content, idx, reads, writes, run, file0>>

\* the script is run again, on the same platform, on the file as the
\* invocation that just completed left it
Rerun ==
    /\ pc = "done"
    /\ run < MaxRuns
    /\ run' = run + 1
    /\ pc' = "read"
    /\ readable' \in BOOLEAN
    /\ content' = <<>>
    /\ idx' = 0
    /\ printed' = <<>>
    /\ reads' = 0
    /\ writes' = 0
    /\ file0' = file
    /\ UNCHANGED <<file, linesep>>

Next ==
    \/ ReadOk
    \/ ReadError
    \/ Iterate
    \/ WriteOk
    \/ WriteError
    \/ Report
    \/ Rerun

Spec == Init /\ [][Next]_vars

\* ---------------------------------------------------------------- records
\* The k-th record of a text is the block of lines from its k-th task_id
\* line up to the line before the next task_id line.  Substitution never
\* adds or removes a task_id line, so the k-th record of the output is the
\* k-th record of the input.
IdPositions(text) == {i \in 1..Len(text) : text[i].k = "task_id"}

NumRecords(text) == Cardinality(IdPositions(text))

NthId(text, k) ==
    CHOOSE i \in IdPositions(text) :
        Cardinality({j \in IdPositions(text) : j <= i}) = k

Record(text, k) ==
    LET first == NthId(text, k)
        later == {j \in IdPositions(text) : j > first}
        last  == IF later = {} THEN Len(text) ELSE Min(later) - 1
    IN  SubSeq(text, first, last)

RecordId(text, k) == text[NthId(text, k)].id

StatusPositions(rec) == {i \in 1..Len(rec) : rec[i].k = "status"}

RecordStatus(text, k) ==
    LET rec == Record(text, k) IN rec[Min(StatusPositions(rec))].s

InRange(task_id) == \E n \in 1..RangeEnd : task_id = TaskId(n)

Statuses(text) == SelectSeq(text, LAMBDA line : line.k = "status")

NumPending(text) ==
    Cardinality({i \in 1..Len(text) : text[i] = StatusLine("pending")})

\* the identifier iteration idx of the loop works on
CurrentTaskId == TaskId(completed_tasks[idx])

InLoopBody == pc = "loop" /\ idx \in 1..Len(completed_tasks)

\* the buffer after iterations 1..n of the loop applied to text
RECURSIVE AfterIterations(_, _)
AfterIterations(text, n) ==
    IF n = 0 THEN text
    ELSE ReSub(TaskId(completed_tasks[n]), AfterIterations(text, n - 1))

\* ---------------------------------------------------------------- claims
\* the text of the file at the start of the run, and its text now
InText == Decode(file0)
OutText == Decode(file)

\* the bytes of the k-th record of a file: its lines and their terminator
RecordBytes(f, k) == [lines |-> Record(f.lines, k), eol |-> f.eol]

\* C1: when a run has completed, every record TASK-NNN with NNN in 1..30
\* that was "pending" in the input is "completed" in the written file and
\* has exactly one completed_date line, directly after its status line.
C1_PendingInRangeCompleted ==
    pc = "done" =>
        /\ NumRecords(OutText) = NumRecords(InText)
        /\ \A k \in 1..NumRecords(InText) :
              (InRange(RecordId(InText, k)) /\ RecordStatus(InText, k) = "pending") =>
                  LET rec == Record(OutText, k)
                      sp  == Min(StatusPositions(rec))
                  IN  /\ RecordId(OutText, k) = RecordId(InText, k)
                      /\ Cardinality(StatusPositions(rec)) = 1
                      /\ rec[sp] = StatusLine("completed")
                      /\ NumDates(rec) = 1
                      /\ sp < Len(rec)
                      /\ rec[sp + 1] = CompletedDateLine
                      /\ Len(rec) = Len(Record(InText, k)) + 1

C1_Witness ==
    /\ pc = "done"
    /\ \E k \in 1..NumRecords(InText) :
          /\ Record(InText, k) =
                <<TaskIdLine(TaskId(30)), StatusLine("pending"), OtherLine>>
          /\ Record(OutText, k) =
                <<TaskIdLine(TaskId(30)), StatusLine("completed"),
                  CompletedDateLine, OtherLine>>

\* C2: when a run has completed, every record whose identifier is outside
\* TASK-001..TASK-030 is unchanged in the written file (stated here of the
\* record's lines alone, which is less than byte-for-byte).
C2_OutOfRangeUnchanged ==
    pc = "done" =>
        \A k \in 1..NumRecords(InText) :
            ~InRange(RecordId(InText, k)) =>
                Record(OutText, k) = Record(InText, k)

\* C3 (as claimed): a record whose identifier is in range and whose status
\* in the input is not "pending" is byte-for-byte unchanged by a run.
C3_NonPendingInRangeSameBytes ==
    pc = "done" =>
        \A k \in 1..NumRecords(InText) :
            (InRange(RecordId(InText, k)) /\ RecordStatus(InText, k) # "pending") =>
                RecordBytes(file, k) = RecordBytes(file0, k)

\* C3 (amended): such a record is unchanged line for line, in the buffer
\* at every point of the run and in the file, so no completed_date is
\* added to it; and it is unchanged byte for byte when the terminator of
\* the file's lines is the platform's os.linesep.
C3_NonPendingInRangeSameText ==
    \A k \in 1..NumRecords(InText) :
        (InRange(RecordId(InText, k)) /\ RecordStatus(InText, k) # "pending") =>
            /\ Record(OutText, k) = Record(InText, k)
            /\ pc \in {"loop", "write", "report", "done", "fatal_write"} =>
                   Record(content, k) = Record(InText, k)
            /\ file0.eol = linesep => RecordBytes(file, k) = RecordBytes(file0, k)

C3_Witness ==
    /\ pc = "done"
    /\ OutText # InText
    /\ \E k \in 1..NumRecords(InText) :
          /\ RecordId(InText, k) = TaskId(1)
          /\ RecordStatus(InText, k) = "completed"
          /\ NumDates(Record(OutText, k)) = 1

\* C4: a second run, started on the file a completed run wrote, writes
\* that same file again.
C4_SecondRunIdempotent ==
    (run >= 2 /\ pc = "done") => file = file0

\* C5: an iteration whose identifier has no record with status "pending"
\* in the buffer leaves the buffer unchanged.
C5_NoPendingRecordNoChange ==
    [][ (InLoopBody /\ ~\E k \in 1..NumRecords(content) :
                           /\ RecordId(content, k) = CurrentTaskId
                           /\ RecordStatus(content, k) = "pending")
        => content' = content ]_vars

\* C6 (as claimed): one iteration performs at most one substitution, i.e.
\* adds at most one completed_date line to the buffer.
C6_AtMostOneSubstitution ==
    [][ InLoopBody => Len(content') <= Len(content) + 1 ]_vars

\* C6 (amended): one iteration replaces every non-overlapping match of its
\* identifier: each record of that identifier that is "pending" before the
\* iteration is "completed" after it, and the iteration performs at most
\* one substitution per task_id line of that identifier.
C6_EveryMatchReplaced ==
    [][ InLoopBody =>
          /\ NumRecords(content') = NumRecords(content)
          /\ \A k \in 1..NumRecords(content) :
                (RecordId(content, k) = CurrentTaskId
                   /\ RecordStatus(content, k) = "pending")
                => RecordStatus(content', k) = "completed"
          /\ Len(content') <= Len(content)
                 + Cardinality({i \in 1..Len(content) :
                                  MatchesHead(content[i], CurrentTaskId)}) ]_vars

\* after iteration 1: both records of a duplicated TASK-001 were replaced
C6_Witness ==
    /\ pc = "loop"
    /\ idx = 2
    /\ NumRecords(InText) = 2
    /\ RecordId(InText, 1) = TaskId(1) /\ RecordId(InText, 2) = TaskId(1)
    /\ RecordStatus(InText, 1) = "pending" /\ RecordStatus(InText, 2) = "pending"
    /\ RecordStatus(content, 1) = "completed"
    /\ RecordStatus(content, 2) = "completed"
    /\ Len(content) = Len(InText) + 2

\* C7: a run that completes has printed the number of identifiers
\* attempted, 30, whatever the file held; and the loop itself never ends
\* the run: a fatal state is entered only at the read or at the write.
C7_ReportsAttempted ==
    /\ pc = "done" => printed = <<30>>
    /\ pc # "done" => printed = <<>>
    /\ pc = "fatal_read" => idx = 0
    /\ pc = "fatal_write" => idx = Len(completed_tasks) + 1

\* a file with no in-range record at all, in which nothing was changed
C7_Witness ==
    /\ pc = "done"
    /\ printed = <<30>>
    /\ \A k \in 1..NumRecords(InText) : ~InRange(RecordId(InText, k))
    /\ NumPending(InText) > 0
    /\ OutText = InText

\* C8: when the file cannot be read the run ends in the fatal state of the
\* read, with no iteration performed, nothing written and nothing printed.
C8_ReadFailureFatal ==
    (~readable /\ pc # "read") =>
        /\ pc = "fatal_read"
        /\ idx = 0
        /\ content = <<>>
        /\ reads = 0
        /\ writes = 0
        /\ file = file0
        /\ printed = <<>>

C8_Witness == ~readable /\ pc = "fatal_read" /\ NumPending(OutText) > 0

\* C9: the file is read once and written at most once per run, the write
\* comes after the last iteration, the file holds its original bytes until
\* then, and what is written is the buffer after all 30 iterations.
C9_ReadOnceWriteOnceAtEnd ==
    /\ reads <= 1
    /\ writes <= 1
    /\ pc \in {"loop", "write", "report", "done", "fatal_write"} => reads = 1
    /\ pc \in {"read", "loop", "write", "fatal_read", "fatal_write"} =>
           writes = 0 /\ file = file0
    /\ pc = "loop" => content = AfterIterations(InText, idx - 1)
    /\ pc \in {"report", "done"} =>
           /\ writes = 1
           /\ idx = Len(completed_tasks) + 1
           /\ file = Encode(content)
           /\ file = Encode(AfterIterations(InText, Len(completed_tasks)))

C9_Witness == pc = "done" /\ reads = 1 /\ writes = 1 /\ OutText # InText

\* C10: no step changes a status other than from "pending" to
\* "completed", in the buffer during the loop and in the file over any
\* number of runs, and the number of "pending" statuses never increases.
OneWay(old, new) ==
    /\ Len(Statuses(new)) = Len(Statuses(old))
    /\ \A i \in 1..Len(Statuses(old)) :
          \/ Statuses(new)[i] = Statuses(old)[i]
          \/ /\ Statuses(old)[i] = StatusLine("pending")
             /\ Statuses(new)[i] = StatusLine("completed")
    /\ NumPending(new) <= NumPending(old)

C10_StatusOneWay ==
    [][ /\ OneWay(Decode(file), Decode(file'))
        /\ InLoopBody => OneWay(content, content')
        /\ (pc = "read" /\ pc' = "loop") => OneWay(Decode(file), content') ]_vars

\* a second run turned one more "pending" into "completed"
C10_Witness ==
    /\ run = 2
    /\ pc = "done"
    /\ NumPending(OutText) < NumPending(InText)

====
